---------------------------- MODULE Spec2Model ----------------------------
(***************************************************************************)
(* A model of rename.py: the naming-convention engine (case detection,     *)
(* conversion through canonical kebab form, the variation generator, the   *)
(* filename and content substitution) and the two directory flows          *)
(* rename_files and replace_in_files as main() runs them.                  *)
(*                                                                         *)
(* A Python str is a sequence of one-character strings.                    *)
(***************************************************************************)
EXTENDS Integers, Sequences, FiniteSets, TLC

(***************************************************************************)
(* Characters and the str methods the program uses.                        *)
(***************************************************************************)
Lowers == <<"a","b","c","d","e","f","g","h","i","j","k","l","m",
            "n","o","p","q","r","s","t","u","v","w","x","y","z">>

Uppers == <<"A","B","C","D","E","F","G","H","I","J","K","L","M",
            "N","O","P","Q","R","S","T","U","V","W","X","Y","Z">>

Digits == <<"0","1","2","3","4","5","6","7","8","9">>

IsLower(c) == \E i \in DOMAIN Lowers : Lowers[i] = c

IsUpper(c) == \E i \in DOMAIN Uppers : Uppers[i] = c

IsDigit(c) == \E i \in DOMAIN Digits : Digits[i] = c

LowerChar(c) ==
    IF IsUpper(c) THEN Lowers[CHOOSE i \in DOMAIN Uppers : Uppers[i] = c] ELSE c

UpperChar(c) ==
    IF IsLower(c) THEN Uppers[CHOOSE i \in DOMAIN Lowers : Lowers[i] = c] ELSE c

\* str.lower()
Lower(s) == [i \in 1..Len(s) |-> LowerChar(s[i])]

\* a capitalize that uppercases the first character and keeps the rest
CapitalizeFirstOnly(w) ==
    IF w = <<>> THEN <<>> ELSE <<UpperChar(w[1])>> \o Tail(w)

\* str.capitalize(): the first character uppercased, the rest lowercased
Capitalize(w) ==
    IF w = <<>> THEN <<>> ELSE <<UpperChar(w[1])>> \o Lower(Tail(w))

\* sub in s
Contains(s, sub) ==
    \E i \in 1..(Len(s) - Len(sub) + 1) : SubSeq(s, i, i + Len(sub) - 1) = sub

\* s.endswith(suffix)
EndsWith(s, suffix) ==
    /\ Len(suffix) <= Len(s)
    /\ SubSeq(s, Len(s) - Len(suffix) + 1, Len(s)) = suffix

\* s.replace('', new): new before every character and at the end, that is
\* Len(s) blocks of new followed by one character of s, and then new
Interleave(s, new) ==
    LET block == Len(new) + 1
    IN  [i \in 1..(Len(s) * block + Len(new)) |->
            IF (i - 1) % block < Len(new)
            THEN new[((i - 1) % block) + 1]
            ELSE s[((i - 1) \div block) + 1]]

RECURSIVE ReplaceScan(_, _, _)
\* the left-to-right scan of str.replace for a non-empty old
ReplaceScan(s, old, new) ==
    IF Len(s) < Len(old) THEN s
    ELSE IF SubSeq(s, 1, Len(old)) = old
         THEN new \o ReplaceScan(SubSeq(s, Len(old) + 1, Len(s)), old, new)
         ELSE <<s[1]>> \o ReplaceScan(Tail(s), old, new)

\* s.replace(old, new)
Replace(s, old, new) ==
    IF old = <<>> THEN Interleave(s, new)
    ELSE IF ~Contains(s, old) THEN s
    ELSE ReplaceScan(s, old, new)

RECURSIVE SplitAcc(_, _, _)
SplitAcc(s, sep, cur) ==
    IF s = <<>> THEN <<cur>>
    ELSE IF s[1] = sep THEN <<cur>> \o SplitAcc(Tail(s), sep, <<>>)
         ELSE SplitAcc(Tail(s), sep, Append(cur, s[1]))

\* s.split(sep) for a one-character sep
Split(s, sep) == SplitAcc(s, sep, <<>>)

RECURSIVE JoinCapitalized(_)
\* ''.join(word.capitalize() for word in words)
JoinCapitalized(words) ==
    IF words = <<>> THEN <<>>
    ELSE Capitalize(Head(words)) \o JoinCapitalized(Tail(words))

(***************************************************************************)
(* The Case Converter.                                                     *)
(***************************************************************************)
to_pascal_case(kebab_str) == JoinCapitalized(Split(kebab_str, "-"))

RECURSIVE JoinWords(_)
JoinWords(words) ==
    IF words = <<>> THEN <<>> ELSE Head(words) \o JoinWords(Tail(words))

\* a to_camel_case that joins the words without capitalizing them
to_camel_case_joined(kebab_str) ==
    LET parts == Split(kebab_str, "-")
    IN  Lower(parts[1]) \o JoinWords(Tail(parts))

to_camel_case(kebab_str) ==
    LET parts == Split(kebab_str, "-")
    IN  Lower(parts[1]) \o JoinCapitalized(Tail(parts))

to_snake_case(s) == Replace(s, <<"-">>, <<"_">>)

RECURSIVE HyphenateUpperAfterLower(_, _)
\* a hyphenation that puts a hyphen only where an uppercase letter follows
\* a character that is not uppercase: r'(?<=[^A-Z])(?=[A-Z])'
HyphenateUpperAfterLower(s, atStart) ==
    IF s = <<>> THEN <<>>
    ELSE (IF IsUpper(s[1]) /\ ~atStart THEN <<"-", s[1]>> ELSE <<s[1]>>)
         \o HyphenateUpperAfterLower(Tail(s), IsUpper(s[1]))

RECURSIVE HyphenateUpper(_, _)
\* re.sub(r'(?<!^)(?=[A-Z])', '-', s): a hyphen before every [A-Z] that is
\* not at the start of the string; atStart is TRUE for the first character
HyphenateUpper(s, atStart) ==
    IF s = <<>> THEN <<>>
    ELSE (IF IsUpper(s[1]) /\ ~atStart THEN <<"-", s[1]>> ELSE <<s[1]>>)
         \o HyphenateUpper(Tail(s), FALSE)

RECURSIVE CollapseHyphens(_)
\* re.sub(r'-+', '-', s)
CollapseHyphens(s) ==
    IF Len(s) < 2 THEN s
    ELSE IF s[1] = "-" /\ s[2] = "-" THEN CollapseHyphens(Tail(s))
         ELSE <<s[1]>> \o CollapseHyphens(Tail(s))

RECURSIVE StripHyphens(_)
StripHyphens(s) ==
    IF s = <<>> THEN s
    ELSE IF s[1] = "-" THEN StripHyphens(Tail(s))
    ELSE IF s[Len(s)] = "-" THEN StripHyphens(SubSeq(s, 1, Len(s) - 1))
    ELSE s

\* a to_kebab_case that also trims the hyphens at both ends
to_kebab_case_trimmed(s) ==
    LET s1 == Replace(Replace(s, <<"_">>, <<"-">>), <<" ">>, <<"-">>)
        kebab_case_string == Lower(HyphenateUpper(s1, TRUE))
    IN  StripHyphens(CollapseHyphens(kebab_case_string))

to_kebab_case(s) ==
    LET s1 == Replace(Replace(s, <<"_">>, <<"-">>), <<" ">>, <<"-">>)
        kebab_case_string == Lower(HyphenateUpper(s1, TRUE))
    IN  CollapseHyphens(kebab_case_string)

(***************************************************************************)
(* The Case Classifier.                                                    *)
(***************************************************************************)
IsLowerOrDigit(c) == IsLower(c) \/ IsDigit(c)

IsAlnum(c) == IsLower(c) \/ IsUpper(c) \/ IsDigit(c)

\* the whole of s is [a-z0-9]+(?:<sep>[a-z0-9]+)*
SeparatedWords(s, sep) ==
    /\ s # <<>>
    /\ \A i \in 1..Len(s) : IsLowerOrDigit(s[i]) \/ s[i] = sep
    /\ s[1] # sep
    /\ s[Len(s)] # sep
    /\ \A i \in 1..(Len(s) - 1) : ~(s[i] = sep /\ s[i + 1] = sep)

\* the whole of s is [a-z][a-zA-Z0-9]*
LowerThenAlnum(s) ==
    /\ s # <<>>
    /\ IsLower(s[1])
    /\ \A i \in 2..Len(s) : IsAlnum(s[i])

\* the whole of s is [A-Z][a-zA-Z0-9]*
UpperThenAlnum(s) ==
    /\ s # <<>>
    /\ IsUpper(s[1])
    /\ \A i \in 2..Len(s) : IsAlnum(s[i])

\* the patterns dict, in its insertion order
PatternOrder == <<"snake_case", "kebab-case", "camelCase", "PascalCase">>

\* the body of a pattern, between its ^ and its $, against the whole of s
PatternBody(case, s) ==
    CASE case = "snake_case" -> SeparatedWords(s, "_")
      [] case = "kebab-case" -> SeparatedWords(s, "-")
      [] case = "camelCase"  -> LowerThenAlnum(s)
      [] case = "PascalCase" -> UpperThenAlnum(s)

\* re.match(r'^...$', s): $ matches at the end of the string and also just
\* before a line break that ends the string
ReMatch(case, s) ==
    \/ PatternBody(case, s)
    \/ /\ s # <<>>
       /\ s[Len(s)] = "\n"
       /\ PatternBody(case, SubSeq(s, 1, Len(s) - 1))

detect_case_type(string) ==
    IF \E i \in DOMAIN PatternOrder : ReMatch(PatternOrder[i], string)
    THEN PatternOrder[CHOOSE i \in DOMAIN PatternOrder :
                         /\ ReMatch(PatternOrder[i], string)
                         /\ \A j \in 1..(i - 1) : ~ReMatch(PatternOrder[j], string)]
    ELSE "other"

\* convert_string returns a value or raises ValueError
Returned(v) == [raised |-> "none", value |-> v]

Raised(e) == [raised |-> e, value |-> <<>>]

\* convert_string whose last branch returns the string instead of raising
convert_string_no_raise(string, to_case) ==
    LET kebab == to_kebab_case(string)
    IN  CASE to_case = "camelCase"  -> Returned(to_camel_case(kebab))
          [] to_case = "PascalCase" -> Returned(to_pascal_case(kebab))
          [] to_case = "snake_case" -> Returned(to_snake_case(kebab))
          [] to_case = "kebab-case" -> Returned(kebab)
          [] OTHER                  -> Returned(string)

convert_string(string, to_case) ==
    LET kebab == to_kebab_case(string)
    IN  CASE to_case = "camelCase"  -> Returned(to_camel_case(kebab))
          [] to_case = "PascalCase" -> Returned(to_pascal_case(kebab))
          [] to_case = "snake_case" -> Returned(to_snake_case(kebab))
          [] to_case = "kebab-case" -> Returned(kebab)
          [] to_case = "other"      -> Returned(string)
          [] OTHER                  -> Raised("ValueError")

(***************************************************************************)
(* The Variation Generator.                                                *)
(***************************************************************************)
\* the keys of a variation dict, in insertion order
KeyOrder == <<"original", "camelCase", "PascalCase", "snake_case", "kebab-case">>

CaseKeys == {KeyOrder[i] : i \in DOMAIN KeyOrder}

generate_all_case_variations(text) ==
    LET kebab == to_kebab_case(text)
    IN  [k \in CaseKeys |->
            CASE k = "original"   -> text
              [] k = "camelCase"  -> to_camel_case(kebab)
              [] k = "PascalCase" -> to_pascal_case(kebab)
              [] k = "snake_case" -> to_snake_case(kebab)
              [] k = "kebab-case" -> kebab]

(***************************************************************************)
(* The Substitution Engine.                                                *)
(***************************************************************************)
\* the positions of the keys whose needle variation occurs in s
MatchingKeys(s, needle_variations) ==
    {i \in DOMAIN KeyOrder : Contains(s, needle_variations[KeyOrder[i]])}

\* the least element of a non-empty set of key positions
FirstOf(S) == CHOOSE i \in S : \A j \in S : i <= j

RECURSIVE ReplaceLoop(_, _, _, _, _)
\* the loop of replace_in_files over needle_variations.items(), from key
\* position i on: the test reads content, the replace works on new_content
ReplaceLoop(content, new_content, needle_variations, replacement_variations, i) ==
    IF i > Len(KeyOrder) THEN new_content
    ELSE LET case == KeyOrder[i]
             variation == needle_variations[case]
         IN  ReplaceLoop(content,
                         IF Contains(content, variation)
                         THEN Replace(new_content, variation,
                                      replacement_variations[case])
                         ELSE new_content,
                         needle_variations, replacement_variations, i + 1)

RECURSIVE ReplaceLoopRunning(_, _, _, _)
\* the loop with its test made on new_content instead of content
ReplaceLoopRunning(new_content, needle_variations, replacement_variations, i) ==
    IF i > Len(KeyOrder) THEN new_content
    ELSE LET case == KeyOrder[i]
             variation == needle_variations[case]
         IN  ReplaceLoopRunning(IF Contains(new_content, variation)
                                THEN Replace(new_content, variation,
                                             replacement_variations[case])
                                ELSE new_content,
                                needle_variations, replacement_variations, i + 1)

replace_content_running(content, needle_variations, replacement_variations) ==
    ReplaceLoopRunning(content, needle_variations, replacement_variations, 1)

\* new_content of replace_in_files for one file's content
replace_content(content, needle_variations, replacement_variations) ==
    ReplaceLoop(content, content, needle_variations, replacement_variations, 1)

\* replace_text_in_filename without its early return: every matching key
\* is replaced, as in the content loop
replace_text_in_filename_all(filename, needle_variations, replacement_variations) ==
    ReplaceLoop(filename, filename, needle_variations, replacement_variations, 1)

replace_text_in_filename(filename, needle_variations, replacement_variations) ==
    LET hits == MatchingKeys(filename, needle_variations)
    IN  IF hits = {} THEN filename
        ELSE LET case_type == KeyOrder[FirstOf(hits)]
             IN  Replace(filename, needle_variations[case_type],
                         replacement_variations[case_type])

(***************************************************************************)
(* State.  One call of a function of the engine: the function called (fn), *)
(* its string argument (arg: the string classified or converted, the       *)
(* filename, the file content), the target convention of a conversion,     *)
(* the needle and the replacement, and what the call returned or raised.   *)
(***************************************************************************)
VARIABLES fn, arg, target, needle, replacement, ret, detected

(***************************************************************************)
(* State of a run over a directory: the files (tree: path -> content, a    *)
(* path being <<directory, filename>>) and the tree the run started from,  *)
(* the arguments of the flows, the calls the caller makes and how many of  *)
(* them were made, the position in the flow being run (pc), the walk (the  *)
(* directories still to visit, the directory being visited and its listed  *)
(* files not yet handled), what was printed, the exception that ended the  *)
(* run, the number of filesystem operations that have failed, and what     *)
(* input() has read at the prompts of the flow being run.                  *)
(***************************************************************************)
VARIABLES tree, tree0, exclude_dirs, exclude_extensions, dry_run, ask,
          calls, ncalls, pc, dirs_left, cur_dir, files_left, reports,
          outcome, nfail, answers

callVars == <<fn, arg, target, ret, detected>>

argVars == <<exclude_dirs, exclude_extensions, dry_run, ask>>

walkVars == <<dirs_left, cur_dir, files_left>>

runVars == <<tree, tree0, argVars, calls, ncalls, pc, walkVars, reports,
             outcome, nfail, answers>>

\* the flow being run, or the last one run
flow == IF ncalls = 0 THEN "none" ELSE calls[ncalls]

\* no run: the engine is called on its own
NoRun ==
    /\ tree = <<>>
    /\ tree0 = <<>>
    /\ exclude_dirs = {}
    /\ exclude_extensions = {}
    /\ dry_run = TRUE
    /\ ask = FALSE
    /\ calls = <<>>
    /\ ncalls = 0
    /\ pc = "done"
    /\ dirs_left = <<>>
    /\ cur_dir = "none"
    /\ files_left = {}
    /\ reports = {}
    /\ outcome = "none"
    /\ nfail = 0
    /\ answers = <<>>

\* all the strings over alphabet of length at most n
StringsUpTo(alphabet, n) == UNION {[1..k -> alphabet] : k \in 0..n}

(***************************************************************************)
(* Bounds of the inputs.                                                   *)
(***************************************************************************)
MaxLen == 3

MaxNeedleLen == 2

MaxReplLen == 2

MaxPieces == 2

\* a lowercase letter, an uppercase letter, a digit, the three separators
\* to_kebab_case knows, and a line break
CaseAlphabet == {"a", "B", "1", "_", "-", " ", "\n"}

NeedleAlphabet == {"a", "A", "_"}

ReplAlphabet == {"a", "A"}

\* the to_case values tried: the five convert_string knows and two it does not
Targets == {"camelCase", "PascalCase", "snake_case", "kebab-case", "other",
            "unsupportedCase", "CamelCase"}

\* a filename or a content is made of at most MaxPieces pieces, each a case
\* variation of the needle or a character that is in none of them
Pieces(n) ==
    {generate_all_case_variations(n)[k] : k \in CaseKeys} \cup {<<"x">>}

RECURSIVE PieceStrings(_, _)
PieceStrings(P, k) ==
    IF k = 0 THEN {<<>>}
    ELSE LET shorter == PieceStrings(P, k - 1)
         IN  shorter \cup {s \o p : s \in shorter, p \in P}

(***************************************************************************)
(* SpecCase: one call of detect_case_type or of convert_string.            *)
(***************************************************************************)
InitCase ==
    /\ fn = "none"
    /\ arg \in StringsUpTo(CaseAlphabet, MaxLen)
    /\ target \in Targets
    /\ needle = <<>>
    /\ replacement = <<>>
    /\ ret = Returned(<<>>)
    /\ detected = "none"
    /\ NoRun

DetectCaseType ==
    /\ fn = "none"
    /\ fn' = "detect_case_type"
    /\ detected' = detect_case_type(arg)
    /\ UNCHANGED <<arg, target, needle, replacement, ret, runVars>>

ConvertString ==
    /\ fn = "none"
    /\ fn' = "convert_string"
    /\ ret' = convert_string(arg, target)
    /\ UNCHANGED <<arg, target, needle, replacement, detected, runVars>>

(***************************************************************************)
(* SpecSubst: one call of replace_text_in_filename, or one pass of the     *)
(* content loop of replace_in_files, with the variation dicts of a needle  *)
(* and of a replacement.                                                   *)
(***************************************************************************)
InitSubst ==
    /\ fn = "none"
    /\ needle \in StringsUpTo(NeedleAlphabet, MaxNeedleLen)
    /\ replacement \in StringsUpTo(ReplAlphabet, MaxReplLen)
    /\ arg \in PieceStrings(Pieces(needle), MaxPieces)
    /\ target = "other"
    /\ ret = Returned(<<>>)
    /\ detected = "none"
    /\ NoRun

ReplaceTextInFilename ==
    /\ fn = "none"
    /\ fn' = "replace_text_in_filename"
    /\ ret' = Returned(replace_text_in_filename(arg,
                  generate_all_case_variations(needle),
                  generate_all_case_variations(replacement)))
    /\ UNCHANGED <<arg, target, needle, replacement, detected, runVars>>

ReplaceContent ==
    /\ fn = "none"
    /\ fn' = "replace_in_files"
    /\ ret' = Returned(replace_content(arg,
                  generate_all_case_variations(needle),
                  generate_all_case_variations(replacement)))
    /\ UNCHANGED <<arg, target, needle, replacement, detected, runVars>>

(***************************************************************************)
(* The filesystem and the helpers of the flows.                            *)
(***************************************************************************)
text_file_extensions ==
    {<<".","t","x","t">>, <<".","m","d">>, <<".","p","y">>, <<".","j","s">>,
     <<".","j","a","v","a">>, <<".","c">>, <<".","c","p","p">>,
     <<".","c","s">>, <<".","h">>, <<".","h","t","m","l">>,
     <<".","c","s","s">>, <<".","s","c","s","s">>, <<".","l","e","s","s">>,
     <<".","j","s","o","n">>, <<".","x","m","l">>, <<".","y","a","m","l">>,
     <<".","y","m","l">>, <<".","c","s","v">>, <<".","l","o","g">>,
     <<".","i","n","i">>, <<".","c","o","n","f">>, <<".","c","f","g">>,
     <<".","p","l","i","s","t">>, <<".","p","h","p">>, <<".","s","h">>,
     <<".","b","a","t">>, <<".","c","m","d">>, <<".","p","s","1">>,
     <<".","v","b","s">>, <<".","r","b">>, <<".","g","o">>,
     <<".","l","u","a">>, <<".","p","l">>, <<".","h","s">>,
     <<".","l","h","s">>, <<".","s","c","a","l","a">>, <<".","s","b","t">>,
     <<".","s","w","i","f","t">>, <<".","s","q","l">>, <<".","r">>,
     <<".","m">>, <<".","t","e","x">>, <<".","c","l","s">>,
     <<".","s","t","y">>, <<".","b","i","b">>, <<".","k","t">>,
     <<".","g","r","o","o","v","y">>, <<".","g","d">>, <<".","t","c","l">>,
     <<".","r","s","t">>, <<".","r","e","s","t">>, <<".","h","t","t","p">>,
     <<".","p","r","o","p","e","r","t","i","e","s">>,
     <<".","t","o","m","l">>, <<".","r","s">>, <<".","d","a","r","t">>,
     <<".","x","h","t","m","l">>, <<".","j","s","p">>,
     <<".","j","s","p","x">>, <<".","a","s","p">>, <<".","a","s","p","x">>,
     <<".","e","r","b">>, <<".","t","w","i","g">>, <<".","j","l">>,
     <<".","e","x">>, <<".","e","x","s">>, <<".","e","e","x">>,
     <<".","l","e","e","x">>, <<".","s","v","e","l","t","e">>,
     <<".","v","u","e">>, <<".","e","l","m">>, <<".","c","l","j","s">>,
     <<".","c","l","j">>, <<".","e","d","n">>,
     <<".","c","o","f","f","e","e">>,
     <<".","l","i","t","c","o","f","f","e","e">>, <<".","i","c","e","d">>,
     <<".","a","j">>, <<".","a","s","m">>, <<".","s">>, <<".","p","a","s">>,
     <<".","p">>, <<".","p","p">>, <<".","f">>, <<".","f","o","r">>,
     <<".","f","9","0">>, <<".","f","9","5">>, <<".","m","l">>,
     <<".","m","l","i">>, <<".","s","m","l">>, <<".","t","h","y">>,
     <<".","p","y","w">>, <<".","r","p","y">>, <<".","r","e","g","o">>,
     <<".","d">>, <<".","r","k","t">>, <<".","s","c","h">>,
     <<".","r","k","t","l">>, <<".","s","c","m">>, <<".","e","s","s">>,
     <<".","r","h","t","m","l">>, <<".","m","u","s","t","a","c","h","e">>,
     <<".","h","b","s">>, <<".","p","h","t","m","l">>, <<".","c","t","p">>,
     <<".","m","o","d","u","l","e">>, <<".","i","n","c">>,
     <<".","b","a","s","h">>, <<".","k","s","h">>, <<".","c","s","h">>,
     <<".","f","i","s","h">>, <<".","a","w","k">>, <<".","p","s">>,
     <<".","n","i","x">>, <<".","b","b">>,
     <<".","b","b","a","p","p","e","n","d">>,
     <<".","b","b","c","l","a","s","s">>, <<".","r","e","c","i","p","e">>,
     <<".","l","i","s","p">>, <<".","l","s","p">>, <<".","l">>,
     <<".","n","y">>, <<".","p","o","d">>, <<".","p","m">>, <<".","t">>,
     <<".","p","h","p","4">>, <<".","p","h","p","5">>, <<".","v","b">>,
     <<".","b","a","s">>, <<".","c","t","l">>, <<".","d","s","r">>,
     <<".","f","r","m">>, <<".","v","b","a">>,
     <<".","a","p","p","l","e","s","c","r","i","p","t">>,
     <<".","o","s","a","s","c","r","i","p","t">>, <<".","i","n","o">>,
     <<".","e","p","s">>, <<".","p","g","n">>, <<".","s","k">>,
     <<".","b","r","s">>,
     <<".","b","r","i","g","h","t","s","c","r","i","p","t">>,
     <<".","s","u","b","l","i","m","e","-","c","o","m","m","a","n","d","s">>,
     <<".","s","u","b","l","i","m","e","-","c","o","m","p","l","e","t","i","o","n","s">>,
     <<".","s","u","b","l","i","m","e","-","k","e","y","m","a","p">>,
     <<".","s","u","b","l","i","m","e","-","m","a","c","r","o">>,
     <<".","s","u","b","l","i","m","e","-","m","e","n","u">>,
     <<".","s","u","b","l","i","m","e","-","m","o","u","s","e","m","a","p">>,
     <<".","s","u","b","l","i","m","e","-","p","r","o","j","e","c","t">>,
     <<".","s","u","b","l","i","m","e","-","s","e","t","t","i","n","g","s">>,
     <<".","s","u","b","l","i","m","e","-","s","n","i","p","p","e","t">>,
     <<".","s","u","b","l","i","m","e","-","t","h","e","m","e">>,
     <<".","s","u","b","l","i","m","e","-","w","o","r","k","s","p","a","c","e">>,
     <<".","s","u","b","l","i","m","e","_","m","e","t","r","i","c","s">>,
     <<".","s","u","b","l","i","m","e","_","s","e","s","s","i","o","n">>}

is_text_file_by_ext(filename) ==
    \E ext \in text_file_extensions : EndsWith(Lower(filename), ext)

RECURSIVE Fnmatch(_, _)
\* fnmatch.fnmatch(name, pat) on a POSIX system (no case folding), for
\* patterns made of *, ? and literal characters
Fnmatch(name, pat) ==
    IF pat = <<>> THEN name = <<>>
    ELSE IF pat[1] = "*"
         THEN \/ Fnmatch(name, Tail(pat))
              \/ name # <<>> /\ Fnmatch(Tail(name), pat)
         ELSE /\ name # <<>>
              /\ pat[1] = "?" \/ pat[1] = name[1]
              /\ Fnmatch(Tail(name), Tail(pat))

\* the directory the flows are given, and the one subdirectory it may hold;
\* a subdirectory exists when it holds a file
RootDir == "root"

SubDir == "lib"

\* the files of directory d, as os.walk lists them
FilesIn(t, d) == {p[2] : p \in {q \in DOMAIN t : q[1] = d}}

\* the subdirectories of directory d, as os.walk lists them
SubdirsOf(t, d) ==
    IF d = RootDir /\ FilesIn(t, SubDir) # {} THEN {SubDir} ELSE {}

\* not os.listdir(directory): the directory given holds nothing
ListDirEmpty(t) == FilesIn(t, RootDir) = {} /\ SubdirsOf(t, RootDir) = {}

\* a set of directory names as a sequence, in some order
RECURSIVE SeqOf(_)
SeqOf(S) ==
    IF S = {} THEN <<>>
    ELSE LET x == CHOOSE y \in S : TRUE IN <<x>> \o SeqOf(S \ {x})

\* os.rename(src, dst) can succeed: src exists and dst is not a directory
\* (an empty name, "." and ".." name directories)
CanRename(t, d, name, new_name) ==
    /\ <<d, name>> \in DOMAIN t
    /\ new_name \notin {<<>>, <<".">>, <<".", ".">>}

\* the tree after os.rename: the file has its new name, and a file that
\* had that name is replaced
Renamed(t, d, name, new_name) ==
    [p \in (DOMAIN t \ {<<d, name>>}) \cup {<<d, new_name>>} |->
        IF p = <<d, new_name>> THEN t[<<d, name>>] ELSE t[p]]

\* a line printed about a file
Report(kind, d, name, old, new) ==
    [kind |-> kind, dir |-> d, name |-> name, old |-> old, new |-> new]

Cancelled == Report("Operation cancelled.", "none", <<>>, <<>>, <<>>)

\* the "Would replace"/"Replaced" lines of one file, one for each key whose
\* needle variation is in the content
ReplaceReports(kind, d, name, content, needle_variations, replacement_variations) ==
    {Report(kind, d, name, needle_variations[k], replacement_variations[k]) :
        k \in {c \in CaseKeys : Contains(content, needle_variations[c])}}

(***************************************************************************)
(* Bounds and inputs of a run.                                             *)
(***************************************************************************)
MaxFailures == 1

RunNeedles == {<<>>, <<" ">>, <<"c">>}

RunReplacements == {<<>>, <<"o">>, <<"h">>}

\* the files a tree may hold
CandidateFiles ==
    {<<RootDir, <<"c", ".", "h">>>>, <<RootDir, <<"o", ".", "h">>>>,
     <<RootDir, <<"c", ".", "c">>>>, <<SubDir, <<"c", ".", "h">>>>}

\* what each of them holds
InitialContent(p) ==
    CASE p = <<RootDir, <<"c", ".", "h">>>> -> <<"c">>
      [] p = <<RootDir, <<"o", ".", "h">>>> -> <<"x">>
      [] p = <<RootDir, <<"c", ".", "c">>>> -> <<"C", "c">>
      [] p = <<SubDir, <<"c", ".", "h">>>>  -> <<"c", "-", "c">>

Trees == {[p \in F |-> InitialContent(p)] : F \in SUBSET CandidateFiles}

\* what is typed at a confirmation prompt
Answers == {<<"y">>, <<"Y">>, <<"n">>, <<>>}

\* main() calls rename_files and then, with --files, replace_in_files; the
\* tests call either on its own
CallSequences ==
    {<<"rename_files">>, <<"replace_in_files">>,
     <<"rename_files", "replace_in_files">>}

(***************************************************************************)
(* SpecRun: the flows rename_files and replace_in_files over a directory.  *)
(***************************************************************************)
InitRun ==
    /\ fn = "none"
    /\ arg = <<>>
    /\ target = "other"
    /\ ret = Returned(<<>>)
    /\ detected = "none"
    /\ needle \in RunNeedles
    /\ replacement \in RunReplacements
    /\ tree \in Trees
    /\ tree0 = tree
    /\ exclude_dirs \in {{}, {SubDir}}
    /\ exclude_extensions \in {{}, {<<"*", ".", "h">>}}
    /\ dry_run \in BOOLEAN
    /\ ask \in BOOLEAN
    /\ calls \in CallSequences
    /\ ncalls = 0
    /\ pc = "idle"
    /\ dirs_left = <<>>
    /\ cur_dir = "none"
    /\ files_left = {}
    /\ reports = {}
    /\ outcome = "none"
    /\ nfail = 0
    /\ answers = <<>>

\* the walk starts: os.walk(directory)
StartWalk ==
    /\ pc' = "walk"
    /\ dirs_left' = <<RootDir>>
    /\ cur_dir' = "none"
    /\ files_left' = {}

\* an exception leaves the flow and ends the run
Raise(e) ==
    /\ pc' = "done"
    /\ outcome' = e

\* rename_files or replace_in_files is called: the checks of the directory
\* and of the needle, up to the first prompt or to the walk
Call ==
    /\ pc = "idle"
    /\ ncalls < Len(calls)
    /\ ncalls' = ncalls + 1
    /\ IF ListDirEmpty(tree) \/ needle = <<>>
       THEN Raise("ValueError") /\ UNCHANGED walkVars
       ELSE /\ UNCHANGED outcome
            /\ IF replacement = <<>> /\ ask
               THEN pc' = "empty_prompt" /\ UNCHANGED walkVars
               ELSE IF ask
                    THEN pc' = "proceed_prompt" /\ UNCHANGED walkVars
                    ELSE StartWalk
    /\ answers' = <<>>
    /\ UNCHANGED <<callVars, needle, replacement, tree, tree0, argVars,
                   calls, reports, nfail>>

\* the answer to "The replacement string is empty ... continue? (y/n)"
AnswerEmptyPrompt ==
    /\ pc = "empty_prompt"
    /\ \E confirmation \in Answers :
          /\ answers' = Append(answers, confirmation)
          /\ IF Lower(confirmation) # <<"y">>
             THEN /\ reports' = reports \cup {Cancelled}
                  /\ pc' = "idle"
             ELSE /\ pc' = "proceed_prompt"
                  /\ UNCHANGED reports
    /\ UNCHANGED <<callVars, needle, replacement, tree, tree0, argVars,
                   calls, ncalls, walkVars, outcome, nfail>>

\* a proceed prompt that cancels on 'n' only: confirmation.lower() == 'n'
AnswerProceedPromptUnlessNo ==
    /\ pc = "proceed_prompt"
    /\ \E confirmation \in Answers :
          /\ answers' = Append(answers, confirmation)
          /\ IF Lower(confirmation) = <<"n">>
             THEN /\ reports' = reports \cup {Cancelled}
                  /\ pc' = "idle"
                  /\ UNCHANGED walkVars
             ELSE /\ StartWalk
                  /\ UNCHANGED reports
    /\ UNCHANGED <<callVars, needle, replacement, tree, tree0, argVars,
                   calls, ncalls, outcome, nfail>>

\* the answer to "Do you want to proceed? / Are you sure ...? (y/n)"
AnswerProceedPrompt ==
    /\ pc = "proceed_prompt"
    /\ \E confirmation \in Answers :
          /\ answers' = Append(answers, confirmation)
          /\ IF Lower(confirmation) # <<"y">>
             THEN /\ reports' = reports \cup {Cancelled}
                  /\ pc' = "idle"
                  /\ UNCHANGED walkVars
             ELSE /\ StartWalk
                  /\ UNCHANGED reports
    /\ UNCHANGED <<callVars, needle, replacement, tree, tree0, argVars,
                   calls, ncalls, outcome, nfail>>

\* os.walk yields the next directory: its files are listed now, and its
\* subdirectories not in exclude_dirs are walked after it
EnterDir ==
    /\ pc = "walk"
    /\ files_left = {}
    /\ dirs_left # <<>>
    /\ LET root == Head(dirs_left)
           dirs == {d \in SubdirsOf(tree, root) : d \notin exclude_dirs}
       IN  /\ cur_dir' = root
           /\ files_left' = FilesIn(tree, root)
           /\ dirs_left' = SeqOf(dirs) \o Tail(dirs_left)
    /\ UNCHANGED <<callVars, needle, replacement, tree, tree0, argVars,
                   calls, ncalls, pc, reports, outcome, nfail, answers>>

\* the body of rename_files' loop for one listed file
RenameFile ==
    /\ pc = "walk"
    /\ flow = "rename_files"
    /\ \E filename \in files_left :
          LET new_filename ==
                  replace_text_in_filename(filename,
                      generate_all_case_variations(needle),
                      generate_all_case_variations(replacement))
          IN  /\ files_left' = files_left \ {filename}
              /\ IF new_filename = filename
                 THEN UNCHANGED <<tree, reports, nfail>>
                 ELSE IF dry_run
                 THEN /\ reports' = reports \cup
                            {Report("Would rename", cur_dir, filename,
                                    filename, new_filename)}
                      /\ UNCHANGED <<tree, nfail>>
                 ELSE \/ /\ CanRename(tree, cur_dir, filename, new_filename)
                         /\ tree' = Renamed(tree, cur_dir, filename, new_filename)
                         /\ reports' = reports \cup
                               {Report("Renamed", cur_dir, filename,
                                       filename, new_filename)}
                         /\ UNCHANGED nfail
                      \/ /\ \/ ~CanRename(tree, cur_dir, filename, new_filename)
                               /\ UNCHANGED nfail
                            \/ nfail < MaxFailures /\ nfail' = nfail + 1
                         /\ reports' = reports \cup
                               {Report("Error renaming file", cur_dir, filename,
                                       filename, new_filename)}
                         /\ UNCHANGED tree
    /\ UNCHANGED <<callVars, needle, replacement, tree0, argVars, calls,
                   ncalls, pc, dirs_left, cur_dir, outcome, answers>>

\* the body of replace_in_files' loop for one listed file
ReplaceInFile ==
    /\ pc = "walk"
    /\ flow = "replace_in_files"
    /\ \E filename \in files_left :
          LET file_path == <<cur_dir, filename>>
              needle_variations == generate_all_case_variations(needle)
              replacement_variations == generate_all_case_variations(replacement)
          IN  /\ files_left' = files_left \ {filename}
              /\ IF \/ ~is_text_file_by_ext(filename)
                    \/ \E pat \in exclude_extensions : Fnmatch(filename, pat)
                 THEN UNCHANGED <<tree, reports, nfail, pc, outcome>>
                 ELSE \/ \* open(file_path, 'r') or read() fails
                         /\ nfail < MaxFailures
                         /\ nfail' = nfail + 1
                         /\ Raise("OSError")
                         /\ UNCHANGED <<tree, reports>>
                      \/ /\ file_path \in DOMAIN tree
                         /\ LET content == tree[file_path]
                                new_content ==
                                    replace_content(content, needle_variations,
                                                    replacement_variations)
                                printed ==
                                    ReplaceReports(IF dry_run THEN "Would replace"
                                                   ELSE "Replaced",
                                                   cur_dir, filename, content,
                                                   needle_variations,
                                                   replacement_variations)
                            IN  /\ reports' = reports \cup printed
                                /\ IF new_content # content /\ ~dry_run
                                   THEN \/ /\ tree' = [tree EXCEPT
                                                        ![file_path] = new_content]
                                           /\ UNCHANGED <<nfail, pc, outcome>>
                                        \/ \* open(file_path, 'w') fails
                                           /\ nfail < MaxFailures
                                           /\ nfail' = nfail + 1
                                           /\ Raise("OSError")
                                           /\ UNCHANGED tree
                                   ELSE UNCHANGED <<tree, nfail, pc, outcome>>
    /\ UNCHANGED <<callVars, needle, replacement, tree0, argVars, calls,
                   ncalls, dirs_left, cur_dir, answers>>

\* os.walk is exhausted: the flow returns
Return ==
    /\ pc = "walk"
    /\ files_left = {}
    /\ dirs_left = <<>>
    /\ pc' = "idle"
    /\ UNCHANGED <<callVars, needle, replacement, tree, tree0, argVars,
                   calls, ncalls, walkVars, reports, outcome, nfail, answers>>

(***************************************************************************)
(* SpecConvert: one call of a function of the Case Converter on a string,  *)
(* or one of the two chains of calls a caller of convert_string makes:     *)
(* to camelCase and from there to kebab-case, and to the convention that   *)
(* detect_case_type finds.                                                 *)
(***************************************************************************)
InitConvert ==
    /\ fn = "none"
    /\ arg \in StringsUpTo(CaseAlphabet, MaxLen)
    /\ target = "other"
    /\ needle = <<>>
    /\ replacement = <<>>
    /\ ret = Returned(<<>>)
    /\ detected = "none"
    /\ NoRun

ToKebabCase ==
    /\ fn = "none"
    /\ fn' = "to_kebab_case"
    /\ ret' = Returned(to_kebab_case(arg))
    /\ UNCHANGED <<arg, target, needle, replacement, detected, runVars>>

ToPascalCase ==
    /\ fn = "none"
    /\ fn' = "to_pascal_case"
    /\ ret' = Returned(to_pascal_case(arg))
    /\ UNCHANGED <<arg, target, needle, replacement, detected, runVars>>

ToCamelCase ==
    /\ fn = "none"
    /\ fn' = "to_camel_case"
    /\ ret' = Returned(to_camel_case(arg))
    /\ UNCHANGED <<arg, target, needle, replacement, detected, runVars>>

\* convert_string(convert_string(arg, 'camelCase'), 'kebab-case')
ConvertViaCamelCase ==
    /\ fn = "none"
    /\ fn' = "convert_via_camel_case"
    /\ target' = "kebab-case"
    /\ ret' = convert_string(convert_string(arg, "camelCase").value, "kebab-case")
    /\ UNCHANGED <<arg, needle, replacement, detected, runVars>>

\* convert_string(arg, detect_case_type(arg))
ConvertToDetected ==
    /\ fn = "none"
    /\ fn' = "convert_to_detected"
    /\ detected' = detect_case_type(arg)
    /\ target' = detect_case_type(arg)
    /\ ret' = convert_string(arg, detect_case_type(arg))
    /\ UNCHANGED <<arg, needle, replacement, runVars>>

vars == <<fn, arg, target, needle, replacement, ret, detected, runVars>>

NextCase == DetectCaseType \/ ConvertString

SpecCase == InitCase /\ [][NextCase]_vars

NextSubst == ReplaceTextInFilename \/ ReplaceContent

SpecSubst == InitSubst /\ [][NextSubst]_vars

NextConvert ==
    \/ ToKebabCase
    \/ ToPascalCase
    \/ ToCamelCase
    \/ ConvertViaCamelCase
    \/ ConvertToDetected

SpecConvert == InitConvert /\ [][NextConvert]_vars

NextRun ==
    \/ Call
    \/ AnswerEmptyPrompt
    \/ AnswerProceedPrompt
    \/ EnterDir
    \/ RenameFile
    \/ ReplaceInFile
    \/ Return

SpecRun == InitRun /\ [][NextRun]_vars

Spec == SpecRun

(***************************************************************************)
(* What "every occurrence of old replaced by new" means, stated on         *)
(* positions: the occurrences replaced are chosen from the left and do not *)
(* overlap, each gives new, and every character outside them is kept.      *)
(***************************************************************************)
Occurrences(s, old) ==
    {i \in 1..(Len(s) - Len(old) + 1) : SubSeq(s, i, i + Len(old) - 1) = old}

\* the empty string occurs before every character and at the end
EmptyReplaced(s, new) ==
    [j \in 1..(Len(s) * (Len(new) + 1) + Len(new)) |->
        LET before == (j - 1) \div (Len(new) + 1)
            within == j - before * (Len(new) + 1)
        IN  IF within <= Len(new) THEN new[within] ELSE s[before + 1]]

AllReplaced(s, old, new) ==
    LET occ == Occurrences(s, old)
        chosen[p \in 1..(Len(s) + 1)] ==
            /\ p \in occ
            /\ \A q \in (p - Len(old) + 1)..(p - 1) : q < 1 \/ ~chosen[q]
        covered(i) == \E q \in (i - Len(old) + 1)..i : q >= 1 /\ chosen[q]
        piece(i) ==
            (IF chosen[i] THEN new ELSE <<>>)
            \o (IF i <= Len(s) /\ ~covered(i) THEN <<s[i]>> ELSE <<>>)
        out[i \in 0..(Len(s) + 1)] ==
            IF i = 0 THEN <<>> ELSE out[i - 1] \o piece(i)
    IN  IF occ = {} THEN s
        ELSE IF old = <<>> THEN EmptyReplaced(s, new)
        ELSE out[Len(s) + 1]

NeedleVariations == generate_all_case_variations(needle)

ReplacementVariations == generate_all_case_variations(replacement)

\* the key positions whose needle variation occurs somewhere in s
KeysOccurringIn(s) ==
    {i \in DOMAIN KeyOrder : Occurrences(s, NeedleVariations[KeyOrder[i]]) # {}}

(***************************************************************************)
(* C1: filename substitution is first-match-wins.  The keys are scanned in *)
(* the order original, camelCase, PascalCase, snake_case, kebab-case; the  *)
(* result is the name with every occurrence of the first occurring needle  *)
(* variation replaced by the same-key replacement variation and nothing    *)
(* else changed, and the name itself when no variation occurs.             *)
(***************************************************************************)
C1_FirstMatchWins ==
    fn = "replace_text_in_filename" =>
        /\ ret.raised = "none"
        /\ LET hits == KeysOccurringIn(arg)
           IN  IF hits = {} THEN ret.value = arg
               ELSE \E i \in hits :
                       /\ \A j \in hits : i <= j
                       /\ ret.value = AllReplaced(arg, NeedleVariations[KeyOrder[i]],
                                                  ReplacementVariations[KeyOrder[i]])

\* a name in which two different needle variations occur: the first is
\* replaced, the later one is still there
C1_Witness ==
    /\ fn = "replace_text_in_filename"
    /\ ret.value # arg
    /\ \E i, j \in KeysOccurringIn(arg) :
          /\ i < j
          /\ \A h \in KeysOccurringIn(arg) : i <= h
          /\ NeedleVariations[KeyOrder[i]] # NeedleVariations[KeyOrder[j]]
          /\ ~Contains(ReplacementVariations[KeyOrder[i]], NeedleVariations[KeyOrder[j]])
          /\ Contains(ret.value, NeedleVariations[KeyOrder[j]])

RECURSIVE FoldKeys(_, _, _, _)
\* "replace the key's needle variation by its replacement variation" folded
\* over the keys from position i on; the test "does the variation occur" is
\* made on the running content (onRunning) or on the original content
FoldKeys(original, running, i, onRunning) ==
    IF i > Len(KeyOrder) THEN running
    ELSE LET tested == IF onRunning THEN running ELSE original
             old == NeedleVariations[KeyOrder[i]]
         IN  FoldKeys(original,
                      IF Occurrences(tested, old) # {}
                      THEN AllReplaced(running, old, ReplacementVariations[KeyOrder[i]])
                      ELSE running,
                      i + 1, onRunning)

(***************************************************************************)
(* C2 as stated: content substitution tests each key's needle variation    *)
(* against the content as already modified by the earlier keys, so the     *)
(* result is the fold of the five replacements over the running content.   *)
(***************************************************************************)
C2_TestOnRunningContent ==
    fn = "replace_in_files" => ret.value = FoldKeys(arg, arg, 1, TRUE)

(***************************************************************************)
(* C2 amended: content substitution tests each key's needle variation      *)
(* against the content as read from the file, and replaces every           *)
(* occurrence in the running content for the keys whose variation occurs   *)
(* in the content as read.                                                 *)
(***************************************************************************)
C2_TestOnOriginalContent ==
    fn = "replace_in_files" =>
        /\ ret.raised = "none"
        /\ ret.value = FoldKeys(arg, arg, 1, FALSE)

\* a pass in which an earlier key inserted a later key's needle variation,
\* which the content as read did not hold
C2_Witness ==
    /\ fn = "replace_in_files"
    /\ ret.value # arg
    /\ \E i \in DOMAIN KeyOrder :
          /\ ~Contains(arg, NeedleVariations[KeyOrder[i]])
          /\ Contains(ret.value, NeedleVariations[KeyOrder[i]])
          /\ NeedleVariations[KeyOrder[i]] # ReplacementVariations[KeyOrder[i]]

Conventions == {"camelCase", "PascalCase", "snake_case", "kebab-case"}

(***************************************************************************)
(* C3: convention is preserved in filenames.  For a non-empty needle, a    *)
(* name that is exactly the needle's variation in a convention becomes     *)
(* exactly the replacement's variation in that convention.                 *)
(***************************************************************************)
C3_ConventionPreserved ==
    (fn = "replace_text_in_filename" /\ needle # <<>>) =>
        \A c \in Conventions :
            arg = NeedleVariations[c] => ret.value = ReplacementVariations[c]

(***************************************************************************)
(* C4: content substitution replaces each occurrence exactly once.  For a  *)
(* non-empty needle, a content that is exactly the needle ends as exactly  *)
(* the replacement, also when the replacement contains the needle.         *)
(***************************************************************************)
C4_ReplacedExactlyOnce ==
    (fn = "replace_in_files" /\ needle # <<>> /\ arg = needle) =>
        ret.value = replacement

(***************************************************************************)
(* C5: both substitution operations fail with EmptyNeedle when the needle  *)
(* variation set's original entry is the empty string.                     *)
(***************************************************************************)
C5_EmptyNeedleFails ==
    (fn \in {"replace_text_in_filename", "replace_in_files"}
        /\ NeedleVariations["original"] = <<>>) =>
        ret.raised = "EmptyNeedle"

SupportedCases == {"camelCase", "PascalCase", "snake_case", "kebab-case", "other"}

(***************************************************************************)
(* C9: convert_string raises ValueError for every string when the target   *)
(* is none of camelCase, PascalCase, snake_case, kebab-case, other, and    *)
(* for the target other it returns the string itself, not its kebab form.  *)
(***************************************************************************)
C9_UnsupportedConvention ==
    fn = "convert_string" =>
        /\ target \notin SupportedCases => ret = Raised("ValueError")
        /\ target = "other" => ret = Returned(arg)

\* a conversion of a string with an unsupported target has raised
C9_Witness ==
    /\ fn = "convert_string"
    /\ target = "unsupportedCase"
    /\ arg # <<>>
    /\ ret.raised = "ValueError"

\* the first convention, in priority order, whose pattern the whole of s is
WholeStringCase(s) ==
    IF \E i \in DOMAIN PatternOrder : PatternBody(PatternOrder[i], s)
    THEN PatternOrder[CHOOSE i \in DOMAIN PatternOrder :
                         /\ PatternBody(PatternOrder[i], s)
                         /\ \A j \in 1..(i - 1) : ~PatternBody(PatternOrder[j], s)]
    ELSE "other"

(***************************************************************************)
(* C10: detect_case_type returns the first convention, in the order        *)
(* snake_case, kebab-case, camelCase, PascalCase, whose pattern the entire *)
(* string matches, and other when none does, for every string, a string    *)
(* that ends with a line break included.                                   *)
(***************************************************************************)
C10_WholeStringClassified ==
    fn = "detect_case_type" => detected = WholeStringCase(arg)

(***************************************************************************)
(* Properties of a run.                                                    *)
(***************************************************************************)
\* every call the caller makes has returned
RunReturned == pc = "idle" /\ ncalls = Len(calls)

\* os.walk visits directory d
Walked(d) == d = RootDir \/ d \notin exclude_dirs

\* replace_in_files reads the file named name
Read(name) ==
    /\ is_text_file_by_ext(name)
    /\ ~\E pat \in exclude_extensions : Fnmatch(name, pat)

\* the name a dry run of rename_files reports for the file at path p of the
\* starting tree ("Would rename" when it differs), and the content a dry run
\* of replace_in_files reports for it ("Would replace" for each key)
ReportedName(p) ==
    IF Walked(p[1])
    THEN replace_text_in_filename(p[2], NeedleVariations, ReplacementVariations)
    ELSE p[2]

ReportedContent(p) ==
    IF Walked(p[1]) /\ Read(p[2])
    THEN replace_content(tree0[p], NeedleVariations, ReplacementVariations)
    ELSE tree0[p]

\* the files of a tree, each as <<directory, name, content>>
FilesOf(t) == {<<p[1], p[2], t[p]>> : p \in DOMAIN t}

(***************************************************************************)
(* C6: dry-run changes nothing, and with dry_run=False the renames and     *)
(* edits performed are the ones a dry run reports.  A dry run leaves every *)
(* path and every content as it was; a run of rename_files and then        *)
(* replace_in_files with dry_run=False that was confirmed, met no          *)
(* filesystem failure and no two files with one new name, leaves each file *)
(* under the name and with the content the dry run reports for it.         *)
(***************************************************************************)
C6_DryRunFaithful ==
    /\ dry_run => tree = tree0
    /\ (/\ ~dry_run
        /\ RunReturned
        /\ calls = <<"rename_files", "replace_in_files">>
        /\ Cancelled \notin reports
        /\ nfail = 0
        /\ \A r \in reports : r.kind # "Error renaming file"
        /\ \A p, q \in DOMAIN tree0 :
              (p # q /\ p[1] = q[1]) => ReportedName(p) # ReportedName(q))
       => FilesOf(tree) = {<<p[1], ReportedName(p), ReportedContent(p)>> :
                              p \in DOMAIN tree0}

(***************************************************************************)
(* C7: a filesystem failure on one file is non-fatal in both flows.  Once  *)
(* a rename, a read or a write has failed, the run does not end with an    *)
(* exception, and a flow returns only after every listed file and every    *)
(* directory was handled.                                                  *)
(***************************************************************************)
C7_FailureNonFatal ==
    nfail > 0 =>
        /\ outcome # "OSError"
        /\ pc \in {"idle", "done"} => files_left = {} /\ dirs_left = <<>>

\* the file at path p is excluded: it is under a directory named in
\* exclude_dirs, or its name matches a pattern of exclude_extensions
Excluded(p) ==
    \/ p[1] \in exclude_dirs
    \/ \E pat \in exclude_extensions : Fnmatch(p[2], pat)

(***************************************************************************)
(* C8: excluded files are never touched by a run.  A file under a          *)
(* directory named in the exclude-directory list, or whose name matches an *)
(* exclude pattern, keeps its path and its content.                        *)
(***************************************************************************)
C8_ExcludedUntouched ==
    \A p \in DOMAIN tree0 :
        Excluded(p) => p \in DOMAIN tree /\ tree[p] = tree0[p]

(***************************************************************************)
(* The canonical kebab form stated on positions.                           *)
(***************************************************************************)
\* the characters of s at the positions K, in order
Keep(s, K) ==
    [j \in 1..Cardinality(K) |->
        s[CHOOSE i \in K : Cardinality({k \in K : k < i}) = j - 1]]

Separators == {"_", " ", "-"}

\* each '_' and each space replaced by '-'
Hyphened(s) ==
    [i \in 1..Len(s) |-> IF s[i] \in {"_", " "} THEN "-" ELSE s[i]]

\* the positions of the uppercase letters that are not the first character
InnerUppers(s) == {i \in 2..Len(s) : IsUpper(s[i])}

\* '-' inserted before each of them: the character at i moves right by the
\* number of uppercase letters up to i, and the places left free hold '-'
UpperHyphened(s) ==
    LET place(i) == i + Cardinality({k \in InnerUppers(s) : k <= i})
    IN  [p \in 1..(Len(s) + Cardinality(InnerUppers(s))) |->
            IF \E i \in 1..Len(s) : place(i) = p
            THEN s[CHOOSE i \in 1..Len(s) : place(i) = p]
            ELSE "-"]

\* each run of '-' collapsed into one: a '-' that follows a '-' is dropped
RunsCollapsed(s) ==
    Keep(s, {i \in 1..Len(s) : ~(i > 1 /\ s[i] = "-" /\ s[i - 1] = "-")})

KebabByRule(s) ==
    RunsCollapsed([i \in 1..Len(UpperHyphened(Hyphened(s))) |->
                      LowerChar(UpperHyphened(Hyphened(s))[i])])

DigitAtBoundary(s) ==
    \E i \in 1..Len(s) :
        \/ /\ s[i] \in Separators
           /\ \/ i > 1 /\ IsDigit(s[i - 1])
              \/ i < Len(s) /\ IsDigit(s[i + 1])
        \/ i > 1 /\ IsUpper(s[i]) /\ IsDigit(s[i - 1])

\* the kebab form k has a word at both ends, and each word after a '-'
\* begins with a letter a-z
WordsBeginWithLetter(k) ==
    /\ k # <<>> => k[1] # "-" /\ k[Len(k)] # "-"
    /\ \A i \in 1..(Len(k) - 1) : k[i] = "-" => IsLower(k[i + 1])

\* C12 as stated: for every s with no digit next to a word boundary, the
\* kebab form re-derived from the camelCase variant of s is the kebab-case
\* variant of s.
C12_CamelRoundTrip ==
    (fn = "convert_via_camel_case" /\ ~DigitAtBoundary(arg)) =>
        /\ ret.raised = "none"
        /\ ret.value = generate_all_case_variations(arg)["kebab-case"]

\* C12 amended: the round trip gives the kebab-case variant back for every
\* s whose kebab form neither begins nor ends with '-' and has a letter a-z
\* right after each '-'.
C12_CamelRoundTripOfWords ==
    (fn = "convert_via_camel_case" /\ WordsBeginWithLetter(to_kebab_case(arg))) =>
        /\ ret.raised = "none"
        /\ ret.value = generate_all_case_variations(arg)["kebab-case"]

\* the round trip was made on a string of two words
C12_Witness ==
    /\ fn = "convert_via_camel_case"
    /\ WordsBeginWithLetter(to_kebab_case(arg))
    /\ Contains(to_kebab_case(arg), <<"-">>)
    /\ generate_all_case_variations(arg)["camelCase"] = <<"a", "B">>
    /\ ret.value = <<"a", "-", "b">>

(***************************************************************************)
(* Capitalising the tokens of a hyphen-separated string, on positions.     *)
(***************************************************************************)
\* the positions of k that are not a hyphen
TokenChars(k) == {i \in 1..Len(k) : k[i] # "-"}

\* position i is the first character of a token
TokenStart(k, i) == i = 1 \/ k[i - 1] = "-"

\* position i is in the first token
InFirstToken(k, i) == \A j \in 1..i : k[j] # "-"

\* the tokens of k joined, the first character of each uppercased; the
\* other characters kept when keepRest, lowercased otherwise; the whole
\* first token lowercased when camel
TokensCapitalized(k, keepRest, camel) ==
    Keep([i \in 1..Len(k) |->
             IF camel /\ InFirstToken(k, i) THEN LowerChar(k[i])
             ELSE IF TokenStart(k, i) THEN UpperChar(k[i])
             ELSE IF keepRest THEN k[i]
             ELSE LowerChar(k[i])],
         TokenChars(k))

\* C13 as stated: to_pascal_case(k) is the tokens of k joined with the first
\* character of each uppercased and the other characters left as they
\* were, and to_camel_case(k) is the same with the first token lowercased.
C13_OnlyFirstCharChanged ==
    /\ fn = "to_pascal_case" => ret.value = TokensCapitalized(arg, TRUE, FALSE)
    /\ fn = "to_camel_case" => ret.value = TokensCapitalized(arg, TRUE, TRUE)

\* C13 amended: the first character of each token is uppercased and the
\* other characters of the token are lowercased (str.capitalize).
C13_RestLowercased ==
    /\ fn = "to_pascal_case" => ret.value = TokensCapitalized(arg, FALSE, FALSE)
    /\ fn = "to_camel_case" => ret.value = TokensCapitalized(arg, FALSE, TRUE)

\* to_pascal_case or to_camel_case has run on a string whose last token has
\* an uppercase letter after its first character
C13_Witness ==
    /\ fn \in {"to_pascal_case", "to_camel_case"}
    /\ Len(arg) = 3
    /\ arg[1] = "-" /\ arg[2] = "a" /\ arg[3] = "B"
    /\ ret.value = <<"A", "b">>

(***************************************************************************)
(* Conversion to the detected convention.                                  *)
(***************************************************************************)
\* C14: converting a string to the convention detect_case_type finds for it
\* gives the string back: convert_string(s, detect_case_type(s)) = s, for
\* snake_case, kebab-case, camelCase, PascalCase (runs of uppercase letters
\* included) and other.
C14_ConvertToDetectedIsIdentity ==
    fn = "convert_to_detected" =>
        /\ detected \in SupportedCases
        /\ ret.raised = "none"
        /\ ret.value = arg

\* a camelCase string that ends with a run of uppercase letters was
\* converted to camelCase
C14_Witness ==
    /\ fn = "convert_to_detected"
    /\ detected = "camelCase"
    /\ arg = <<"a", "B", "B">>
    /\ ret.value = arg

\* the needle is empty or is made of whitespace only
Blank(s) == \A i \in 1..Len(s) : s[i] \in {" ", "\t", "\n", "\r"}

\* C15: when the needle is empty or only whitespace, rename_files and
\* replace_in_files raise an error and no file is renamed or rewritten.
C15_BlankNeedleRejected ==
    (ncalls > 0 /\ Blank(needle)) =>
        /\ pc = "done"
        /\ outcome = "ValueError"
        /\ tree = tree0

(***************************************************************************)
(* Confirmation.                                                           *)
(***************************************************************************)
\* the flow being run is at one of its prompts
AtPrompt == pc \in {"empty_prompt", "proceed_prompt"}

\* the prompts the flow being run shows before its traversal
PromptsShown == IF replacement = <<>> THEN 2 ELSE 1

\* each of them was shown and answered 'y' or 'Y'
Confirmed ==
    /\ Len(answers) = PromptsShown
    /\ \A i \in 1..Len(answers) : answers[i] \in {<<"y">>, <<"Y">>}

\* a step that renames or rewrites a file
ChangesTree == tree' # tree

\* a step that reads an answer other than 'y' or 'Y'
Declines ==
    /\ Len(answers') = Len(answers) + 1
    /\ answers'[Len(answers')] \notin {<<"y">>, <<"Y">>}

\* C16: with ask=True, a rename or a write happens only when every prompt of
\* the flow being run was shown and answered 'y' or 'Y'; an answer other
\* than that ends the flow with the tree as it was; and while a flow is at
\* a prompt it has changed nothing (the tree is the one the run began with,
\* when the flow is the first call).
C16_NoChangeWithoutConfirmation ==
    /\ [](ask /\ AtPrompt /\ ncalls = 1 => tree = tree0)
    /\ [][/\ (ask /\ ChangesTree) => Confirmed /\ Confirmed'
          /\ (ask /\ AtPrompt) => ~ChangesTree
          /\ (ask /\ Declines) => pc' = "idle" /\ ~ChangesTree /\ ~Confirmed'
         ]_vars

\* both prompts were answered and a file was then renamed or rewritten
C16_Witness ==
    /\ ask
    /\ replacement = <<>>
    /\ Confirmed
    /\ answers = <<<<"Y">>, <<"y">>>>
    /\ tree # tree0

(***************************************************************************)
(* Renaming keeps the files.                                               *)
(***************************************************************************)
Directories == {RootDir, SubDir}

\* C17: in a run of rename_files with dry_run=False each directory holds as
\* many files as before the run, and the content of every file is still
\* there, under the old name or a new one: no rename overwrites a file.
C17_NoFileLost ==
    (flow = "rename_files" /\ ~dry_run) =>
        /\ \A d \in Directories :
              Cardinality(FilesIn(tree, d)) = Cardinality(FilesIn(tree0, d))
        /\ \A p \in DOMAIN tree0 :
              \E q \in DOMAIN tree : q[1] = p[1] /\ tree[q] = tree0[p]

=============================================================================
